---- MODULE Spec2Model ----
(***************************************************************************)
(* Model of the dealer discovery and enrichment pipeline of app.py:        *)
(* verify_zipcode, extract_zipcode, get_dealer_info / process_results,     *)
(* extract_website_info and the "Find Dealers" main flow.                  *)
(*                                                                         *)
(* Strings are sequences of one-character strings.  Python's None is the   *)
(* value None below (for strings) or a tagged record (for lists).          *)
(***************************************************************************)
EXTENDS Naturals, Sequences, FiniteSets, TLC

VARIABLES
    \* ---- pure-function harness (verify_zipcode, extract_zipcode)
    fpc,            \* "call" before the function is applied, "done" after
    arg,            \* the argument string
    ret,            \* the value returned
    \* ---- main flow and get_dealer_info
    pc,             \* position of the single thread of control
    zipcode,        \* the text of the zip code input
    geocode_result, \* "unset", "found", "empty" or "raised"
    query,          \* index into search_queries of the running query
    places_result,  \* the latest places_nearby response
    place,          \* index into places_result.results inside process_results
    dealers,        \* the list process_results appends to
    result,         \* what get_dealer_info returned
    messages,       \* the st.warning / st.error / st.success calls, in order
    calls,          \* number of external calls made, per collaborator
    detailLog,      \* history: one entry per gmaps.place call
    provided,       \* history: hits (number, place ids) and page tokens returned
    rendered,       \* number of dealers rendered by the main flow
    issued,         \* history: the keywords of the first-page calls, in order
    \* ---- extract_website_info
    wpc,            \* position inside extract_website_info
    url,            \* its argument
    downloaded,     \* what trafilatura.fetch_url returned
    text_content,   \* the text extracted so far
    analysis,       \* what extract_website_info returned
    formatted       \* what format_website_analysis made of it

hvars == <<fpc, arg, ret>>
wvars == <<wpc, url, downloaded, text_content, analysis, formatted>>
fvars == <<hvars, wvars>>
svars == <<pc, zipcode, geocode_result, query, places_result, place, dealers,
           result, messages, calls, detailLog, provided, rendered, issued>>
vars == <<fvars, svars>>

(***************************************************************************)
(* Characters and regular-expression classes.                              *)
(***************************************************************************)
None == <<"None">>

\* \d restricted to ASCII
IsDigit(c) == c \in {"0", "1", "2", "3", "4", "5", "6", "7", "8", "9"}

\* \s restricted to ASCII
IsSpace(c) == c \in {" ", "\t", "\n", "\r", "\f"}

AllDigits(s, from, to) == \A i \in from..to : IsDigit(s[i])

(***************************************************************************)
(* verify_zipcode: bool(re.match(r'^\d{5}$', zipcode)).  In Python "$"     *)
(* matches at the end of the string and also just before a newline that    *)
(* is the last character of the string.                                    *)
(***************************************************************************)
DollarAt(s, i) ==
    \/ i = Len(s) + 1
    \/ i = Len(s) /\ s[i] = "\n"

verify_zipcode_lenonly(s) == Len(s) = 5

verify_zipcode(s) == Len(s) >= 5 /\ AllDigits(s, 1, 5) /\ DollarAt(s, 6)

(***************************************************************************)
(* extract_zipcode: re.search(r'[,\s](\d{5})[,\s-]', address), group 1 of  *)
(* the leftmost match, None when nothing matches or the search raises      *)
(* (an address that is None).                                              *)
(***************************************************************************)
LeadDelim(c) == c = "," \/ IsSpace(c)

TrailDelim(c) == c = "," \/ IsSpace(c) \/ c = "-"

MatchAt(s, i) ==
    /\ i + 6 <= Len(s)
    /\ LeadDelim(s[i])
    /\ AllDigits(s, i + 1, i + 5)
    /\ TrailDelim(s[i + 6])

extract_zipcode(address) ==
    IF address = None THEN None
    ELSE LET hits == {i \in 1..Len(address) : MatchAt(address, i)}
         IN  IF hits = {} THEN None
             ELSE LET first == CHOOSE i \in hits : \A j \in hits : i <= j
                  IN  SubSeq(address, first + 1, first + 5)

(***************************************************************************)
(* Bounds of the model.                                                    *)
(***************************************************************************)
\* longest argument given to verify_zipcode
MaxZipLen == 6

\* longest generated argument given to extract_zipcode
MaxAddrLen == 8

\* hits the provider returns in one page
MaxPerPage == 2

\* hits the provider returns during one search, over all pages
MaxHits == 2

\* responses carrying a next_page_token during one search
MaxTokens == 2

StringsUpTo(alphabet, n) == UNION {[1..k -> alphabet] : k \in 0..n}

SeqsUpTo(S, n) == UNION {[1..k -> S] : k \in 0..n}

Min(a, b) == IF a <= b THEN a ELSE b

(***************************************************************************)
(* Inputs.                                                                 *)
(***************************************************************************)
ZipAlphabet == {"2", "7", "a", "-", "\n"}

AddrAlphabet == {"6", " ", "-", "A"}

Z20136 == <<"2", "0", "1", "3", "6">>

Z20135 == <<"2", "0", "1", "3", "5">>

Z62701 == <<"6", "2", "7", "0", "1">>

\* "123 Main St, Springfield, IL 62701"
AddrSpringfield ==
    <<"1", "2", "3", " ", "M", "a", "i", "n", " ", "S", "t", ",", " ",
      "S", "p", "r", "i", "n", "g", "f", "i", "e", "l", "d", ",", " ",
      "I", "L", " ">> \o Z62701

\* "62701-1234 Unit 5"
AddrUnit ==
    Z62701 \o <<"-", "1", "2", "3", "4", " ", "U", "n", "i", "t", " ", "5">>

\* "123 Main St, Springfield, IL 62701, USA": the provider's usual form
AddrSpringfieldUSA == AddrSpringfield \o <<",", " ", "U", "S", "A">>

\* "9 Elm, Bristow, VA 62701-1234, USA"
AddrZipPlus4 ==
    <<"9", " ", "E", "l", "m", ",", " ", "V", "A", " ">> \o Z62701
        \o <<"-", "1", "2", "3", "4", ",", " ", "U", "S", "A">>

\* "Unit 20135, 9 Elm, VA 62701, USA": a five-digit unit number first
AddrUnitFirst ==
    <<"U", "n", "i", "t", " ">> \o Z20135
        \o <<",", " ", "9", " ", "E", "l", "m", ",", " ", "V", "A", " ">>
        \o Z62701 \o <<",", " ", "U", "S", "A">>

ExampleAddresses ==
    {AddrSpringfield, AddrUnit, AddrSpringfieldUSA, AddrZipPlus4, AddrUnitFirst}

\* the formatted_address values place details carry in the search model
AddrPrefix == <<"9", " ", "E", "l", "m", ",", " ", "V", "A", " ">>

AddrSuffix == <<",", " ", "U", "S", "A">>

Addr36 == AddrPrefix \o Z20136 \o AddrSuffix

Addr35 == AddrPrefix \o Z20135 \o AddrSuffix

Addr36End == AddrPrefix \o Z20136

Addresses == {Addr36, Addr35, Addr36End}

\* what the user can type into the input (max_chars=5)
ZipInputs ==
    {<<>>, <<"2", "0", "1", "3">>, <<"2", "0", "1", "3", "a">>,
     <<"2", "0", "1", "3", "\n">>, Z20136, Z20135}

PlaceIds == {"p1", "p2"}

search_queries ==
    <<"independent used car dealer", "used car dealer", "pre-owned car dealer",
      "used auto sales", "used vehicle dealer">>

(***************************************************************************)
(* Idle values of the two halves of the state.                             *)
(***************************************************************************)
NoCalls == [geocode |-> 0, places_nearby |-> 0, place |-> 0, sleep2 |-> 0,
            fetch_url |-> 0, requests_get |-> 0, openai |-> 0]

NoPage == [results |-> <<>>, next_page_token |-> FALSE]

Unset == [kind |-> "unset", list |-> <<>>]

ReturnNone == [kind |-> "None", list |-> <<>>]

ReturnList(l) == [kind |-> "list", list |-> l]

SearchIdle ==
    /\ pc = "off"
    /\ zipcode = <<>>
    /\ geocode_result = "unset"
    /\ query = 0
    /\ places_result = NoPage
    /\ place = 0
    /\ dealers = <<>>
    /\ result = Unset
    /\ messages = <<>>
    /\ calls = NoCalls
    /\ detailLog = <<>>
    /\ provided = [hits |-> 0, tokens |-> 0, ids |-> <<>>]
    /\ rendered = 0
    /\ issued = <<>>

HarnessIdle == fpc = "off" /\ arg = <<>> /\ ret = None

WebsiteIdle ==
    /\ wpc = "off"
    /\ url = "None"
    /\ downloaded = "unset"
    /\ text_content = None
    /\ analysis = [kind |-> "unset"]
    /\ formatted = "unset"

(***************************************************************************)
(* Harness of verify_zipcode.                                              *)
(***************************************************************************)
InitValidate ==
    /\ fpc = "call"
    /\ arg \in StringsUpTo(ZipAlphabet, MaxZipLen)
    /\ ret = FALSE
    /\ WebsiteIdle
    /\ SearchIdle

CallVerifyZipcode ==
    /\ fpc = "call"
    /\ ret' = verify_zipcode(arg)
    /\ fpc' = "done"
    /\ UNCHANGED <<arg, wvars, svars>>

NextValidate == CallVerifyZipcode

SpecValidate == InitValidate /\ [][NextValidate]_vars

(***************************************************************************)
(* Harness of extract_zipcode.                                             *)
(***************************************************************************)
InitExtract ==
    /\ fpc = "call"
    /\ arg \in StringsUpTo(AddrAlphabet, MaxAddrLen) \cup ExampleAddresses
    /\ ret = None
    /\ WebsiteIdle
    /\ SearchIdle

CallExtractZipcode ==
    /\ fpc = "call"
    /\ ret' = extract_zipcode(arg)
    /\ fpc' = "done"
    /\ UNCHANGED <<arg, wvars, svars>>

NextExtract == CallExtractZipcode

SpecExtract == InitExtract /\ [][NextExtract]_vars

(***************************************************************************)
(* get_dealer_info and process_results.                                    *)
(***************************************************************************)
\* the except clause of get_dealer_info: st.error(...), return None
SearchFailed ==
    /\ messages' = Append(messages, "error_finding_dealer_information")
    /\ result' = ReturnNone
    /\ pc' = "returned"

\* "if not geocode_result"
LocationFound_always(outcome) == TRUE

LocationFound(outcome) == outcome = "found"

\* "if address_zipcode == target_zipcode"
ZipMatches_any(address_zipcode, target_zipcode) == address_zipcode # None

ZipMatches(address_zipcode, target_zipcode) == address_zipcode = target_zipcode

\* the fields gmaps.place returns beside the address, in two variants
DetailFields(variant) ==
    IF variant = 1
    THEN [name |-> "Dealer One", formatted_phone_number |-> "555-0100",
          website |-> "http://one.example"]
    ELSE [name |-> "Dealer Uno", formatted_phone_number |-> "None",
          website |-> "None"]

\* the answers gmaps.place can give within the bounds
DetailAnswers ==
    {[address |-> a, variant |-> 1] : a \in Addresses}
        \cup {[address |-> Addr36, variant |-> 2], [address |-> Addr35, variant |-> 2]}

\* the dealer dict built from the details of a place
Dealer(place_id, address, variant) ==
    [business_name |-> DetailFields(variant).name,
     full_address |-> address,
     phone_number |-> DetailFields(variant).formatted_phone_number,
     website |-> DetailFields(variant).website,
     place_id |-> place_id]

\* d[e.place_id] = e on a dict kept as the list of its values in key order
DictPut_keepfirst(d, e) ==
    IF \E i \in 1..Len(d) : d[i].place_id = e.place_id THEN d ELSE Append(d, e)

DictPut(d, e) ==
    IF \E i \in 1..Len(d) : d[i].place_id = e.place_id
    THEN [i \in 1..Len(d) |-> IF d[i].place_id = e.place_id THEN e ELSE d[i]]
    ELSE Append(d, e)

RECURSIVE DictOf(_, _)
DictOf(d, ds) == IF ds = <<>> THEN d ELSE DictOf(DictPut(d, Head(ds)), Tail(ds))

UniqueDealers_keepall(ds) == ds

\* list({dealer['place_id']: dealer for dealer in dealers}.values())
UniqueDealers(ds) == DictOf(<<>>, ds)

\* the responses places_nearby can give within the bounds
NearbyResponses ==
    {[results |-> r, next_page_token |-> t] :
        r \in SeqsUpTo(PlaceIds, Min(MaxPerPage, MaxHits - provided.hits)),
        t \in {FALSE} \cup {x \in {TRUE} : provided.tokens < MaxTokens}}

Provide(resp) ==
    provided' = [hits |-> provided.hits + Len(resp.results),
                 tokens |-> provided.tokens + (IF resp.next_page_token THEN 1 ELSE 0),
                 ids |-> provided.ids \o resp.results]

\* the for loop over search_queries moves on to its next element
NextQuery_returnearly ==
    query' = query /\ pc' = "unique"

NextQuery ==
    IF query < Len(search_queries)
    THEN query' = query + 1 /\ pc' = "nearby"
    ELSE query' = query /\ pc' = "unique"

\* gmaps.geocode(zipcode) and the lines up to the for loop
Geocode ==
    /\ pc = "geocode"
    /\ UNCHANGED issued
    /\ calls' = [calls EXCEPT !.geocode = @ + 1]
    /\ \E outcome \in {"found", "empty", "raised"} :
        /\ geocode_result' = outcome
        /\ IF outcome = "raised"
           THEN SearchFailed /\ UNCHANGED <<dealers, query>>
           ELSE IF ~LocationFound(outcome)
           THEN /\ messages' = Append(messages, "could_not_find_location")
                /\ result' = ReturnNone
                /\ pc' = "returned"
                /\ UNCHANGED <<dealers, query>>
           ELSE /\ dealers' = <<>>
                /\ query' = 1
                /\ pc' = "nearby"
                /\ UNCHANGED <<messages, result>>
    /\ UNCHANGED <<fvars, zipcode, places_result, place, detailLog, provided,
                   rendered>>

\* what follows a response whose handling is "if places_result.get('results')"
\* at the top of the loop body: the while loop is inside that if
AfterFirstPage(resp) ==
    IF resp.results # <<>>
    THEN place' = 1 /\ pc' = "details" /\ UNCHANGED query
    ELSE place' = 0 /\ NextQuery

\* the first places_nearby call of a query
NearbySearch ==
    /\ pc = "nearby"
    /\ issued' = Append(issued, search_queries[query])
    /\ calls' = [calls EXCEPT !.places_nearby = @ + 1]
    /\ \/ /\ SearchFailed
          /\ UNCHANGED <<places_result, place, query, provided>>
       \/ \E resp \in NearbyResponses :
            /\ places_result' = resp
            /\ Provide(resp)
            /\ AfterFirstPage(resp)
            /\ UNCHANGED <<messages, result>>
    /\ UNCHANGED <<fvars, zipcode, geocode_result, dealers, detailLog, rendered>>

\* the for loop of process_results moves on to its next element
NextPlace_skipseen ==
    LET results == places_result.results
        seen == {dealers[i].place_id : i \in 1..Len(dealers)} \cup {results[place]}
        rest == {j \in (place + 1)..Len(results) : results[j] \notin seen}
    IN  IF rest # {}
        THEN place' = (CHOOSE j \in rest : \A k \in rest : j <= k) /\ pc' = "details"
        ELSE place' = 0 /\ pc' = "paging"

NextPlace ==
    IF place < Len(places_result.results)
    THEN place' = place + 1 /\ pc' = "details"
    ELSE place' = 0 /\ pc' = "paging"

\* "except Exception as e: st.warning(...); continue"
SkipPlace_break ==
    /\ messages' = Append(messages, "error_processing_dealer")
    /\ place' = 0
    /\ pc' = "paging"

SkipPlace ==
    /\ messages' = Append(messages, "error_processing_dealer")
    /\ NextPlace

\* one iteration of the for loop of process_results: gmaps.place raises
PlaceDetailsRaises ==
    /\ pc = "details"
    /\ UNCHANGED issued
    /\ calls' = [calls EXCEPT !.place = @ + 1]
    /\ detailLog' = Append(detailLog,
            [place_id |-> places_result.results[place], ok |-> FALSE,
             address |-> <<>>, variant |-> 0])
    /\ SkipPlace
    /\ UNCHANGED <<fvars, zipcode, geocode_result, query, places_result, dealers,
                   result, provided, rendered>>

\* one iteration of the for loop of process_results: gmaps.place answers
PlaceDetails ==
    /\ pc = "details"
    /\ UNCHANGED issued
    /\ calls' = [calls EXCEPT !.place = @ + 1]
    /\ \E details \in DetailAnswers :
        LET place_id == places_result.results[place]
            address == details.address
            variant == details.variant
            address_zipcode == extract_zipcode(address)
        IN  /\ detailLog' = Append(detailLog,
                    [place_id |-> place_id, ok |-> TRUE,
                     address |-> address, variant |-> variant])
            /\ dealers' = IF ZipMatches(address_zipcode, zipcode)
                          THEN Append(dealers, Dealer(place_id, address, variant))
                          ELSE dealers
    /\ NextPlace
    /\ UNCHANGED <<fvars, zipcode, geocode_result, query, places_result, result,
                   messages, provided, rendered>>

\* "while 'next_page_token' in places_result": sleep, fetch the next page
NextPage_nosleep ==
    /\ pc = "paging"
    /\ places_result.next_page_token
    /\ UNCHANGED issued
    /\ calls' = [calls EXCEPT !.places_nearby = @ + 1]
    /\ \/ /\ SearchFailed
          /\ UNCHANGED <<places_result, place, provided>>
       \/ \E resp \in NearbyResponses :
            /\ places_result' = resp
            /\ Provide(resp)
            /\ IF resp.results # <<>>
               THEN place' = 1 /\ pc' = "details"
               ELSE place' = 0 /\ pc' = "paging"
            /\ UNCHANGED <<messages, result>>
    /\ UNCHANGED <<fvars, zipcode, geocode_result, query, dealers, detailLog,
                   rendered>>

NextPage ==
    /\ pc = "paging"
    /\ places_result.next_page_token
    /\ UNCHANGED issued
    /\ calls' = [calls EXCEPT !.sleep2 = @ + 1, !.places_nearby = @ + 1]
    /\ \/ /\ SearchFailed
          /\ UNCHANGED <<places_result, place, provided>>
       \/ \E resp \in NearbyResponses :
            /\ places_result' = resp
            /\ Provide(resp)
            /\ IF resp.results # <<>>
               THEN place' = 1 /\ pc' = "details"
               ELSE place' = 0 /\ pc' = "paging"
            /\ UNCHANGED <<messages, result>>
    /\ UNCHANGED <<fvars, zipcode, geocode_result, query, dealers, detailLog,
                   rendered>>

\* the while condition is false: on to the next query
EndOfPages ==
    /\ pc = "paging"
    /\ ~places_result.next_page_token
    /\ NextQuery
    /\ UNCHANGED <<fvars, issued, zipcode, geocode_result, places_result, place, dealers,
                   result, messages, calls, detailLog, provided, rendered>>

\* unique_dealers = {...}.values(); return list(unique_dealers)
ReturnUnique ==
    /\ pc = "unique"
    /\ result' = ReturnList(UniqueDealers(dealers))
    /\ pc' = "returned"
    /\ UNCHANGED <<fvars, issued, zipcode, geocode_result, query, places_result, place,
                   dealers, messages, calls, detailLog, provided, rendered>>

(***************************************************************************)
(* The main flow: the "Find Dealers" button.                               *)
(***************************************************************************)
\* the button is pressed with some text in the input
FindDealers ==
    /\ pc = "idle"
    /\ \E z \in ZipInputs :
        /\ zipcode' = z
        /\ IF z = <<>>
           THEN /\ messages' = Append(messages, "please_enter_a_zip_code")
                /\ pc' = "end"
           ELSE IF ~verify_zipcode(z)
           THEN /\ messages' = Append(messages, "please_enter_a_valid_zip_code")
                /\ pc' = "end"
           ELSE /\ messages' = messages
                /\ pc' = "geocode"
    /\ UNCHANGED <<fvars, issued, geocode_result, query, places_result, place, dealers,
                   result, calls, detailLog, provided, rendered>>

\* "if dealers and len(dealers) > 0" after get_dealer_info returned
ShowResults ==
    /\ pc = "returned"
    /\ IF result.kind = "list" /\ Len(result.list) > 0
       THEN /\ messages' = Append(messages, "found_dealers")
            /\ pc' = "render"
       ELSE /\ messages' = Append(messages, "no_independent_dealers_found")
            /\ pc' = "end"
    /\ UNCHANGED <<fvars, issued, zipcode, geocode_result, query, places_result, place,
                   dealers, result, calls, detailLog, provided, rendered>>

\* one iteration of "for dealer in dealers": create_dealer_html, components.html
RenderDealer_enriching ==
    /\ pc = "render"
    /\ rendered' = rendered + 1
    /\ calls' = IF result.list[rendered + 1].website # "None"
                THEN [calls EXCEPT !.fetch_url = @ + 1]
                ELSE calls
    /\ pc' = IF rendered + 1 < Len(result.list) THEN "render" ELSE "end"
    /\ UNCHANGED <<fvars, issued, zipcode, geocode_result, query, places_result, place,
                   dealers, result, messages, detailLog, provided>>

RenderDealer ==
    /\ pc = "render"
    /\ rendered' = rendered + 1
    /\ pc' = IF rendered + 1 < Len(result.list) THEN "render" ELSE "end"
    /\ UNCHANGED <<fvars, issued, zipcode, geocode_result, query, places_result, place,
                   dealers, result, messages, calls, detailLog, provided>>

Init ==
    /\ HarnessIdle
    /\ WebsiteIdle
    /\ pc = "idle"
    /\ zipcode = <<>>
    /\ geocode_result = "unset"
    /\ query = 0
    /\ places_result = NoPage
    /\ place = 0
    /\ dealers = <<>>
    /\ result = Unset
    /\ messages = <<>>
    /\ calls = NoCalls
    /\ detailLog = <<>>
    /\ provided = [hits |-> 0, tokens |-> 0, ids |-> <<>>]
    /\ rendered = 0
    /\ issued = <<>>

Next ==
    \/ FindDealers
    \/ Geocode
    \/ NearbySearch
    \/ PlaceDetailsRaises
    \/ PlaceDetails
    \/ NextPage
    \/ EndOfPages
    \/ ReturnUnique
    \/ ShowResults
    \/ RenderDealer

Spec == Init /\ [][Next]_vars

\* every call blocks until it returns or raises, and the thread then goes on
SpecFair == Spec /\ WF_vars(Next)

(***************************************************************************)
(* extract_website_info.                                                   *)
(***************************************************************************)
\* longest document, in elements, requests.get returns
MaxNodes == 2

Websites == {"http://one.example", "http://two.example"}

\* str.strip() on a text node
RECURSIVE LStrip(_)
LStrip(t) == IF t # <<>> /\ IsSpace(Head(t)) THEN LStrip(Tail(t)) ELSE t

RECURSIVE RStrip(_)
RStrip(t) ==
    IF t # <<>> /\ IsSpace(t[Len(t)]) THEN RStrip(SubSeq(t, 1, Len(t) - 1)) ELSE t

Strip(t) == RStrip(LStrip(t))

\* a parsed document: its elements in order, each with the text it holds
NodeTexts == {<<>>, <<" ">>, <<"C">>, <<" ", "D", " ">>}

Nodes == [tag : {"p", "script", "style"}, text : NodeTexts]

Documents == SeqsUpTo(Nodes, MaxNodes)

\* "for script in soup(['script', 'style']): script.decompose()"
RECURSIVE Decompose(_)
Decompose(doc) ==
    IF doc = <<>> THEN <<>>
    ELSE IF Head(doc).tag \in {"script", "style"} THEN Decompose(Tail(doc))
    ELSE <<Head(doc)>> \o Decompose(Tail(doc))

\* soup.stripped_strings: the stripped text nodes that are not empty
RECURSIVE StrippedStrings(_)
StrippedStrings(doc) ==
    IF doc = <<>> THEN <<>>
    ELSE IF Strip(Head(doc).text) = <<>> THEN StrippedStrings(Tail(doc))
    ELSE <<Strip(Head(doc).text)>> \o StrippedStrings(Tail(doc))

\* ' '.join(strings)
RECURSIVE JoinSpace(_)
JoinSpace(strings) ==
    IF strings = <<>> THEN <<>>
    ELSE IF Len(strings) = 1 THEN Head(strings)
    ELSE Head(strings) \o <<" ">> \o JoinSpace(Tail(strings))

\* Python truthiness of a string or None
Falsy(x) == x = None \/ x = <<>>

\* the replies of the chat completion and what json.loads makes of them
Replies ==
    {"Sorry, I cannot help.", "{\"services\": []}", "{}", "[\"a\"]", "\"text\"",
     "42", "null"}

json_loads(reply) ==
    CASE reply = "{\"services\": []}" -> [valid |-> TRUE, type |-> "object", empty |-> FALSE]
      [] reply = "{}" -> [valid |-> TRUE, type |-> "object", empty |-> TRUE]
      [] reply = "[\"a\"]" -> [valid |-> TRUE, type |-> "array", empty |-> FALSE]
      [] reply = "\"text\"" -> [valid |-> TRUE, type |-> "string", empty |-> FALSE]
      [] reply = "42" -> [valid |-> TRUE, type |-> "number", empty |-> FALSE]
      [] reply = "null" -> [valid |-> TRUE, type |-> "null", empty |-> TRUE]
      [] OTHER -> [valid |-> FALSE, type |-> "none", empty |-> TRUE]

\* the except clause of extract_website_info: st.error(...), return None
WebsiteFailed ==
    /\ messages' = Append(messages, "error_analyzing_website")
    /\ analysis' = [kind |-> "None"]
    /\ wpc' = "done"

\* "if not text_content: st.warning(...); return None", else on to the analysis
CheckContent(text) ==
    IF Falsy(text)
    THEN /\ messages' = Append(messages, "could_not_extract_content")
         /\ analysis' = [kind |-> "None"]
         /\ wpc' = "done"
    ELSE /\ wpc' = "openai"
         /\ UNCHANGED <<messages, analysis>>

\* trafilatura.fetch_url(url) and "if not downloaded"
FetchUrl ==
    /\ wpc = "fetch"
    /\ calls' = [calls EXCEPT !.fetch_url = @ + 1]
    /\ \/ /\ downloaded' = "raised"
          /\ WebsiteFailed
       \/ \E d \in {"None", "", "<html>"} :
            /\ downloaded' = d
            /\ IF d \in {"None", ""}
               THEN /\ messages' = Append(messages, "could_not_download")
                    /\ analysis' = [kind |-> "None"]
                    /\ wpc' = "done"
               ELSE /\ wpc' = "extract"
                    /\ UNCHANGED <<messages, analysis>>
    /\ UNCHANGED <<hvars, issued, formatted, url, text_content, pc, zipcode, geocode_result, query,
                   places_result, place, dealers, result, detailLog, provided,
                   rendered>>

\* trafilatura.extract(downloaded, ...) and "if not text_content"
Extract ==
    /\ wpc = "extract"
    /\ \/ /\ WebsiteFailed
          /\ UNCHANGED text_content
       \/ \E t \in {None, <<>>, <<"C", "a", "r", "s">>} :
            /\ text_content' = t
            /\ IF Falsy(t)
               THEN wpc' = "fallback" /\ UNCHANGED <<messages, analysis>>
               ELSE CheckContent(t)
    /\ UNCHANGED <<hvars, issued, formatted, url, downloaded, calls, pc, zipcode, geocode_result,
                   query, places_result, place, dealers, result, detailLog,
                   provided, rendered>>

\* requests.get(url, timeout=10), BeautifulSoup, ' '.join(soup.stripped_strings)
FallbackGet ==
    /\ wpc = "fallback"
    /\ calls' = [calls EXCEPT !.requests_get = @ + 1]
    /\ \/ /\ WebsiteFailed
          /\ UNCHANGED text_content
       \/ \E doc \in Documents :
            /\ text_content' = JoinSpace(StrippedStrings(Decompose(doc)))
            /\ CheckContent(text_content')
    /\ UNCHANGED <<hvars, issued, formatted, url, downloaded, pc, zipcode, geocode_result, query,
                   places_result, place, dealers, result, detailLog, provided,
                   rendered>>

\* openai.ChatCompletion.create(...), json.loads(...), return analysis
Analyze ==
    /\ wpc = "openai"
    /\ calls' = [calls EXCEPT !.openai = @ + 1]
    /\ \/ WebsiteFailed
       \/ \E reply \in Replies :
            IF json_loads(reply).valid
            THEN /\ analysis' = [kind |-> "value", value |-> json_loads(reply)]
                 /\ wpc' = "done"
                 /\ UNCHANGED messages
            ELSE WebsiteFailed
    /\ UNCHANGED <<hvars, issued, formatted, url, downloaded, text_content, pc, zipcode,
                   geocode_result, query, places_result, place, dealers, result,
                   detailLog, provided, rendered>>

\* "if not analysis" in format_website_analysis
NoAnalysis(a) == a.kind = "None" \/ a.value.empty

\* format_website_analysis(analysis) on what extract_website_info returned:
\* the placeholder, the HTML of the sections, or the AttributeError of
\* analysis.get on a value that is not a dict
FormatAnalysis ==
    /\ wpc = "done"
    /\ formatted = "unset"
    /\ formatted' = IF NoAnalysis(analysis) THEN "placeholder"
                    ELSE IF analysis.value.type = "object" THEN "html"
                    ELSE "raised"
    /\ UNCHANGED <<hvars, wpc, url, downloaded, text_content, analysis, svars>>

InitWebsite ==
    /\ HarnessIdle
    /\ SearchIdle
    /\ wpc = "fetch"
    /\ url \in Websites
    /\ downloaded = "unset"
    /\ text_content = None
    /\ analysis = [kind |-> "unset"]
    /\ formatted = "unset"

NextWebsite ==
    \/ FetchUrl
    \/ Extract
    \/ FallbackGet
    \/ Analyze
    \/ FormatAnalysis

SpecWebsite == InitWebsite /\ [][NextWebsite]_vars

(***************************************************************************)
(* Properties.                                                             *)
(***************************************************************************)
\* exactly five decimal digits and nothing else
FiveDigits(s) == Len(s) = 5 /\ \A i \in 1..Len(s) : IsDigit(s[i])

\* the place ids of a list of dealers
PlaceIdsOf(list) == {list[i].place_id : i \in 1..Len(list)}

\* the detail fetches that answered with an address whose zip code is the target
Matching == {i \in 1..Len(detailLog) :
                detailLog[i].ok /\ extract_zipcode(detailLog[i].address) = zipcode}

\* C1: every dealer of a returned list has an address whose extracted zip
\* code is the target zip code; a hit with another or no extractable zip code
\* is never in the list.
C1_OnlyTargetZip ==
    result.kind = "list" =>
        \A i \in 1..Len(result.list) :
            /\ extract_zipcode(result.list[i].full_address) # None
            /\ extract_zipcode(result.list[i].full_address) = zipcode

\* a list was returned with a dealer in it, after one hit with another zip
\* code and one hit with no extractable zip code were fetched
C1_Witness ==
    /\ result.kind = "list"
    /\ Len(result.list) > 0
    /\ \E i \in 1..Len(detailLog) :
        /\ detailLog[i].ok
        /\ extract_zipcode(detailLog[i].address) \notin {None, zipcode}

\* C2: a returned list holds at most one entry per place id, and exactly one
\* for every place id of which some hit passed the zip code filter.
C2_OneEntryPerPlaceId ==
    result.kind = "list" =>
        /\ \A i, j \in 1..Len(result.list) :
            result.list[i].place_id = result.list[j].place_id => i = j
        /\ \A k \in Matching :
            Cardinality({i \in 1..Len(result.list) :
                result.list[i].place_id = detailLog[k].place_id}) = 1

\* a list was returned after two hits with the same place id passed the filter
C2_Witness ==
    /\ result.kind = "list"
    /\ \E k, l \in Matching :
        k # l /\ detailLog[k].place_id = detailLog[l].place_id

\* C3: with a valid zip code and a geocoded location the search returns a
\* list holding the dealers collected so far, whatever later calls raise.
C3_OnlyValidationAndLocationAbort ==
    (pc \in {"returned", "render", "end"} /\ geocode_result = "found") =>
        /\ result.kind = "list"
        /\ \A k \in Matching : detailLog[k].place_id \in PlaceIdsOf(result.list)

\* C4: a gmaps.place error skips that hit alone: the search goes on, every
\* hit of every fetched page gets its detail fetch, None is returned only
\* after a geocode or places_nearby failure, and every hit whose fetch
\* answered with the target zip code is in the list when one is returned.
C4_DetailErrorIsolated ==
    /\ pc \in {"paging", "nearby", "unique"} => calls.place = provided.hits
    /\ result.kind = "None" =>
            \E i \in 1..Len(messages) :
                messages[i] \in {"could_not_find_location",
                                 "error_finding_dealer_information"}
    /\ result.kind = "list" =>
        /\ calls.place = provided.hits
        /\ \A k \in Matching : detailLog[k].place_id \in PlaceIdsOf(result.list)

\* a list was returned that holds a hit fetched after another hit's detail
\* fetch raised
C4_Witness ==
    /\ result.kind = "list"
    /\ \E k, l \in 1..Len(detailLog) :
        /\ k < l
        /\ ~detailLog[k].ok
        /\ l \in Matching
        /\ detailLog[l].place_id # detailLog[k].place_id
        /\ detailLog[l].place_id \in PlaceIdsOf(result.list)

\* C5: a query is left only when the latest response carries no pagination
\* token: every page of the chain is fetched, also after an empty page.
C5_EveryPageFetched ==
    pc \in {"nearby", "unique"} => ~places_result.next_page_token

\* C6: verify_zipcode returns true exactly for the strings of five decimal
\* digits with nothing before or after them.
C6_ValidateIffFiveDigits ==
    fpc = "done" => (ret <=> FiveDigits(arg))

\* C7: when the zip code fails validation the request ends with a validation
\* message and no external call is made.
C7_NoCallsOnInvalid ==
    (pc # "idle" /\ ~FiveDigits(zipcode)) =>
        /\ pc = "end"
        /\ calls = NoCalls
        /\ messages = IF zipcode = <<>>
                      THEN <<"please_enter_a_zip_code">>
                      ELSE <<"please_enter_a_valid_zip_code">>

\* the request ended on a five-character input that is not a zip code
C7_Witness ==
    /\ pc = "end"
    /\ zipcode = <<"2", "0", "1", "3", "a">>
    /\ messages = <<"please_enter_a_valid_zip_code">>

\* C8: when geocoding yields no match the search returns None, reports that
\* the location was not found and issues no places_nearby or place call.
C8_LocationNotFound ==
    geocode_result = "empty" =>
        /\ result = ReturnNone
        /\ messages[1] = "could_not_find_location"
        /\ calls.places_nearby = 0
        /\ calls.place = 0

\* the request ended after geocoding found nothing
C8_Witness ==
    /\ geocode_result = "empty"
    /\ pc = "end"
    /\ calls.geocode = 1

\* the digits returned are a whole run of five, between two delimiters
BoundedRun(s, z) ==
    \E i \in 1..Len(s) :
        /\ i + 6 <= Len(s)
        /\ SubSeq(s, i + 1, i + 5) = z
        /\ s[i] \in {",", " ", "-"}
        /\ s[i + 6] \in {",", " ", "-"}

\* C9: extract_zipcode returns a delimited five-digit run, "62701" for
\* "123 Main St, Springfield, IL 62701" and for "62701-1234 Unit 5".
C9_ExtractExamples ==
    fpc = "done" =>
        /\ arg = AddrSpringfield => ret = Z62701
        /\ arg = AddrUnit => ret = Z62701
        /\ ret # None => FiveDigits(ret) /\ BoundedRun(arg, ret)

\* C10: extract_website_info gives up on the content of a page only after
\* the fallback GET was made, whether the download or the extraction yielded
\* nothing, and it returns None rather than raising.
C10_FallbackBeforeNone ==
    (/\ wpc = "done"
     /\ \/ downloaded \in {"None", ""}
        \/ downloaded = "<html>" /\ Falsy(text_content)) =>
        /\ analysis = [kind |-> "None"]
        /\ calls.requests_get = 1

\* C11: only a reply that is a JSON object is returned as an analysis; a
\* reply that is not JSON, or is a JSON list, string, number or null, gives
\* no analysis, and no exception escapes.
C11_OnlyObjectIsAnalysis ==
    /\ (wpc = "done" /\ analysis.kind = "value") => analysis.value.type = "object"
    /\ formatted # "raised"

\* the st.error calls a failed search can lead to
SearchErrors ==
    {"could_not_find_location", "error_finding_dealer_information",
     "no_independent_dealers_found"}

\* C12: a request whose search fails emits exactly one error message, and
\* the failure is not also reported as "no dealers found".
C12_SingleFailureMessage ==
    (pc = "end" /\ result.kind = "None") =>
        /\ Cardinality({i \in 1..Len(messages) : messages[i] \in SearchErrors}) = 1
        /\ \A i \in 1..Len(messages) : messages[i] # "no_independent_dealers_found"

\* the dealers rendered so far that have a website
RenderedWithWebsite ==
    {i \in 1..rendered : result.list[i].website # "None"}

LastMatching(place_id) ==
    CHOOSE k \in Matching :
        /\ detailLog[k].place_id = place_id
        /\ \A l \in Matching : detailLog[l].place_id = place_id => l <= k

\* C14: the entry of a place id in the returned list carries the name,
\* address, phone and website of the last detail fetch of that place id that
\* passed the zip code filter.
C14_LastWriteWins ==
    result.kind = "list" =>
        \A i \in 1..Len(result.list) :
            LET place_id == result.list[i].place_id
                last == detailLog[LastMatching(place_id)]
            IN  /\ \E k \in Matching : detailLog[k].place_id = place_id
                /\ result.list[i] = Dealer(place_id, last.address, last.variant)

\* a list was returned after two fetches of one place id passed the filter
\* with different field values
C14_Witness ==
    /\ result.kind = "list"
    /\ \E k, l \in Matching :
        /\ k < l
        /\ detailLog[k].place_id = detailLog[l].place_id
        /\ detailLog[k].variant # detailLog[l].variant

\* the place ids of the detail fetches made so far, in order
FetchedIds == [i \in 1..Len(detailLog) |-> detailLog[i].place_id]

\* C15: the first-page calls are issued in the order of search_queries, every
\* hit of the pages of a keyword is processed before the next places_nearby
\* call, and every next-page fetch comes with its two-second wait.
C15_CallsOrdered ==
    /\ Len(issued) <= Len(search_queries)
    /\ issued = SubSeq(search_queries, 1, Len(issued))
    /\ pc = "nearby" => Len(issued) = query - 1
    /\ pc \in {"details", "paging", "unique"} => Len(issued) = query
    /\ pc \in {"nearby", "paging"} => FetchedIds = provided.ids
    /\ calls.places_nearby = Len(issued) + calls.sleep2

\* a search went through all keywords, with a next-page fetch and a detail
\* fetch on the way
C15_Witness ==
    /\ pc = "end"
    /\ result.kind = "list"
    /\ issued = search_queries
    /\ calls.sleep2 >= 1
    /\ calls.place >= 1

\* C16: the request ends, and a search that ends with a list has issued the
\* first-page call of every keyword; one that ends without a list has failed.
C16_Terminates ==
    <>(/\ pc = "end"
       /\ result.kind = "list" => issued = search_queries
       /\ result.kind = "None" =>
            \E i \in 1..Len(messages) :
                messages[i] \in {"could_not_find_location",
                                 "error_finding_dealer_information"})

\* a search ended with a list after following every token the provider gave
C16_Witness ==
    /\ pc = "end"
    /\ result.kind = "list"
    /\ issued = search_queries
    /\ calls.sleep2 = MaxTokens

\* C17: gmaps.place is called once for every hit of every fetched page, in
\* order, also for a place id fetched before: the calls number the hits, not
\* the distinct place ids.
C17_DetailsOncePerHit ==
    /\ calls.place = Len(detailLog)
    /\ Len(detailLog) <= Len(provided.ids)
    /\ FetchedIds = SubSeq(provided.ids, 1, Len(detailLog))
    /\ (pc \in {"nearby", "paging", "unique"} \/ result.kind = "list") =>
            calls.place = provided.hits /\ FetchedIds = provided.ids

\* a list was returned after a place id already collected was fetched again
C17_Witness ==
    /\ result.kind = "list"
    /\ \E k, l \in 1..Len(detailLog) :
        k < l /\ k \in Matching /\ detailLog[k].place_id = detailLog[l].place_id
    /\ calls.place > Cardinality({detailLog[i].place_id : i \in 1..Len(detailLog)})

====
